---- MODULE Spec2Model ----
(***************************************************************************)
(* The repository publish workflow of tools/github-publisher:             *)
(* GitHubPublisher.publish (publisher.py) driving GitHubAPI (api.py) and   *)
(* the file collector (utils.py).  One publish run of one GitHubPublisher  *)
(* instance is modelled as a sequential process whose position is pc; the  *)
(* remote service answers every request with a nondeterministic status.    *)
(*                                                                         *)
(* Strings that the code inspects character by character (paths, glob      *)
(* patterns) are sequences of character codes; error messages are strings. *)
(***************************************************************************)
EXTENDS Integers, Sequences, FiniteSets, TLC

(***************************************************************************)
(* Bounds of the model.                                                    *)
(***************************************************************************)
\* At most this many files lie under the source directory.
MaxFiles == 3

(***************************************************************************)
(* config.py                                                               *)
(***************************************************************************)
MAX_FILE_SIZE_MB == 50

SKIP_PATTERNS ==
    { (* node_modules *) <<110, 111, 100, 101, 95, 109, 111, 100, 117, 108, 101, 115>>,
      (* .git *) <<46, 103, 105, 116>>,
      (* target *) <<116, 97, 114, 103, 101, 116>>,
      (* dist *) <<100, 105, 115, 116>>,
      (* build *) <<98, 117, 105, 108, 100>>,
      (* __pycache__ *) <<95, 95, 112, 121, 99, 97, 99, 104, 101, 95, 95>>,
      (* .venv *) <<46, 118, 101, 110, 118>>,
      (* venv *) <<118, 101, 110, 118>>,
      (* .idea *) <<46, 105, 100, 101, 97>>,
      (* .vscode *) <<46, 118, 115, 99, 111, 100, 101>>,
      (* .kiro *) <<46, 107, 105, 114, 111>>,
      (* coverage *) <<99, 111, 118, 101, 114, 97, 103, 101>>,
      (* .next *) <<46, 110, 101, 120, 116>>,
      (* .nuxt *) <<46, 110, 117, 120, 116>>,
      (* .env *) <<46, 101, 110, 118>>,
      (* .env.local *) <<46, 101, 110, 118, 46, 108, 111, 99, 97, 108>>,
      (* <star>.log *) <<42, 46, 108, 111, 103>>,
      (* <star>.tmp *) <<42, 46, 116, 109, 112>>,
      (* package-lock.json *) <<112, 97, 99, 107, 97, 103, 101, 45, 108, 111, 99, 107, 46, 106, 115, 111, 110>>,
      (* Cargo.lock *) <<67, 97, 114, 103, 111, 46, 108, 111, 99, 107>>,
      (* <star>.exe *) <<42, 46, 101, 120, 101>>,
      (* <star>.dll *) <<42, 46, 100, 108, 108>>,
      (* security_report<star>.json *) <<115, 101, 99, 117, 114, 105, 116, 121, 95, 114, 101, 112, 111, 114, 116, 42, 46, 106, 115, 111, 110>>,
      (* hashes.game.txt *) <<104, 97, 115, 104, 101, 115, 46, 103, 97, 109, 101, 46, 116, 120, 116>>,
      (* <star>.wad *) <<42, 46, 119, 97, 100>>,
      (* <star>.client *) <<42, 46, 99, 108, 105, 101, 110, 116>> }

ALWAYS_INCLUDE ==
    { (* README.md *) <<82, 69, 65, 68, 77, 69, 46, 109, 100>>,
      (* LICENSE *) <<76, 73, 67, 69, 78, 83, 69>>,
      (* .gitignore *) <<46, 103, 105, 116, 105, 103, 110, 111, 114, 101>>,
      (* CONTRIBUTING.md *) <<67, 79, 78, 84, 82, 73, 66, 85, 84, 73, 78, 71, 46, 109, 100>>,
      (* SECURITY.md *) <<83, 69, 67, 85, 82, 73, 84, 89, 46, 109, 100>>,
      (* .env.example *) <<46, 101, 110, 118, 46, 101, 120, 97, 109, 112, 108, 101>> }

\* DEFAULT_TOPICS, as the list of its ten topic names (only its emptiness is read).
DEFAULT_TOPICS ==
    <<"tauri", "react", "typescript", "rust", "league-of-legends",
      "skin-manager", "desktop-app", "discord-oauth", "mod-manager", "vite">>

(***************************************************************************)
(* Character codes and paths.  A path is a sequence of segments (Path.parts)*)
(* and a segment is a sequence of character codes.                         *)
(***************************************************************************)
Slash == 47
Backslash == 92
Star == 42

\* str(path): the segments joined with the separator of the operating system.
RECURSIVE PathStr(_, _)
PathStr(parts, sep) ==
    IF Len(parts) = 0 THEN <<>>
    ELSE IF Len(parts) = 1 THEN Head(parts)
    ELSE Head(parts) \o <<sep>> \o PathStr(Tail(parts), sep)

\* str.replace("\\", "/")
ReplaceBackslash(s) ==
    [k \in 1..Len(s) |-> IF s[k] = Backslash THEN Slash ELSE s[k]]

\* Python's str "<": lexicographic by code point, a proper prefix first.
RECURSIVE StrLess(_, _)
StrLess(s, t) ==
    IF Len(t) = 0 THEN FALSE
    ELSE IF Len(s) = 0 THEN TRUE
    ELSE IF Head(s) # Head(t) THEN Head(s) < Head(t)
    ELSE StrLess(Tail(s), Tail(t))

\* fnmatch.fnmatch(name, pat) for patterns of literal characters and "*".
RECURSIVE fnmatch(_, _)
fnmatch(name, pat) ==
    IF Len(pat) = 0 THEN Len(name) = 0
    ELSE IF Head(pat) = Star
         THEN \/ fnmatch(name, Tail(pat))
              \/ Len(name) > 0 /\ fnmatch(Tail(name), pat)
    ELSE /\ Len(name) > 0
         /\ Head(name) = Head(pat)
         /\ fnmatch(Tail(name), Tail(pat))

\* Path(path).name
PathName(parts) == parts[Len(parts)]

(***************************************************************************)
(* utils.py: the collection policy.                                        *)
(***************************************************************************)
should_skip_path(parts, skip_patterns) ==
    \E pattern \in skip_patterns :
        \/ \E k \in 1..Len(parts) : parts[k] = pattern
        \/ fnmatch(PathName(parts), pattern)

should_include_file(parts) == PathName(parts) \in ALWAYS_INCLUDE

\* Fault: the exclusion is tested first; a mandatory file under an excluded
\* directory is lost.
CollectFilter_SkipFirst(disk, skip_patterns) ==
    {f \in disk : ~should_skip_path(f.parts, skip_patterns)}

\* The files rglob yields that pass the policy (directories are no files).
CollectFilter(disk, skip_patterns) ==
    {f \in disk : should_include_file(f.parts)
                  \/ ~should_skip_path(f.parts, skip_patterns)}

\* Fault: the sort key is the forward-slash path, whatever the separator.
RECURSIVE SortByStr_Normalized(_, _)
SortByStr_Normalized(S, sep) ==
    IF S = {} THEN <<>>
    ELSE LET m == CHOOSE f \in S :
                    \A g \in S \ {f} :
                        StrLess(PathStr(f.parts, Slash), PathStr(g.parts, Slash))
         IN <<m>> \o SortByStr_Normalized(S \ {m}, sep)

\* sorted(files, key=lambda x: str(x)): the sequence of the set S in
\* ascending order of the path string under the separator sep.
RECURSIVE SortByStr(_, _)
SortByStr(S, sep) ==
    IF S = {} THEN <<>>
    ELSE LET m == CHOOSE f \in S :
                    \A g \in S \ {f} :
                        StrLess(PathStr(f.parts, sep), PathStr(g.parts, sep))
         IN <<m>> \o SortByStr(S \ {m}, sep)

collect_files(disk, skip_patterns, sep) ==
    SortByStr(CollectFilter(disk, skip_patterns), sep)

\* format_size: the size in the first unit in which it is below 1024 (TB at
\* the latest), printed with one decimal.  div is the divisor reached.
RECURSIVE FormatUnits(_, _, _)
FormatUnits(size, div, units) ==
    IF size \div div < 1024 \/ Len(units) = 1
    THEN LET t == (size * 10 + div \div 2) \div div
         IN ToString(t \div 10) \o "." \o ToString(t % 10) \o " " \o Head(units)
    ELSE FormatUnits(size, div * 1024, Tail(units))

format_size(size_bytes) ==
    FormatUnits(size_bytes, 1, <<"B", "KB", "MB", "GB", "TB">>)

(***************************************************************************)
(* models.py                                                               *)
(***************************************************************************)
\* None and "" are both falsy and no message of the model is empty: one
\* value stands for an absent string.
NoneStr == ""
\* An absent object id (FileEntry.sha = None, PublishResult.commit_sha = "").
NoSha == [kind |-> "none"]
\* No exception.
NoExc == [type |-> "none"]

FileStatus == {"pending", "uploading", "success", "failed", "skipped"}

\* Fault: the id of an entry is computed from its content at construction.
FileEntry_WithSha(path, content) ==
    [path |-> path, content |-> content,
     sha |-> [kind |-> "blob", content |-> content.tag],
     status |-> "pending", error |-> ""]

FileEntry(path, content) ==
    [path |-> path, content |-> content, sha |-> NoSha,
     status |-> "pending", error |-> NoneStr]

TreeEntry(path, sha) ==
    [path |-> path, mode |-> "100644", type |-> "blob", sha |-> sha]

\* PublishResult(success=False)
PublishResult ==
    [success |-> FALSE, repo_url |-> "", commit_sha |-> NoSha,
     files_uploaded |-> 0, files_skipped |-> 0, files_failed |-> 0,
     error |-> NoneStr]

(***************************************************************************)
(* The environment: the source directory and the remote service.           *)
(***************************************************************************)
p_a_txt == <<97, 46, 116, 120, 116>>
p_b_txt == <<98, 46, 116, 120, 116>>
p_node_modules == <<110, 111, 100, 101, 95, 109, 111, 100, 117, 108, 101, 115>>
p_ignored_txt == <<105, 103, 110, 111, 114, 101, 100, 46, 116, 120, 116>>
p_README_md == <<82, 69, 65, 68, 77, 69, 46, 109, 100>>
p_debug_log == <<100, 101, 98, 117, 103, 46, 108, 111, 103>>
p_node_modules0_txt == <<110, 111, 100, 101, 95, 109, 111, 100, 117, 108, 101, 115, 48, 46, 116, 120, 116>>

\* The paths (relative to the source root) a source directory may hold.
DiskPaths ==
    { <<p_a_txt>>, <<p_b_txt>>, <<p_node_modules, p_ignored_txt>>,
      <<p_node_modules, p_README_md>>, <<p_debug_log>>, <<p_node_modules0_txt>> }

\* The content of the file at a path: a tag (equal tags: equal bytes).
ContentTag(parts) ==
    IF parts = <<p_a_txt>> \/ parts = <<p_node_modules, p_ignored_txt>> THEN "x"
    ELSE IF parts = <<p_b_txt>> THEN "y"
    ELSE "z"

\* The byte ceiling of create_blob: len / (1024 * 1024) > MAX_FILE_SIZE_MB.
MaxBytes == MAX_FILE_SIZE_MB * 1024 * 1024

\* File sizes in bytes: at the ceiling and one byte over it.
FileSizes == {MaxBytes, MaxBytes + 1}

\* A file's size and whether read_bytes succeeds on it (the size of a file
\* that cannot be read is never seen).
FileAttrs == {a \in FileSizes \X BOOLEAN : a[2] \/ a[1] = MaxBytes}

\* The directory trees: at most MaxFiles files, each with a size and with
\* whether read_bytes succeeds on it.
Disks ==
    UNION { { {[parts |-> q, size |-> a[q][1], readable |-> a[q][2]] : q \in P} :
              a \in [P -> FileAttrs] } :
            P \in {Q \in SUBSET DiskPaths : Cardinality(Q) <= MaxFiles} }

\* No response at all (requests.RequestException); GitHubAPIError carries
\* status_code 0 then.
NoResponse == 0

GitHubAPIError(message, status_code) ==
    [type |-> "GitHubAPIError", message |-> message, status_code |-> status_code]

\* The "message" of an error response body.
ResponseMessage(status) ==
    IF status = 401 THEN "Bad credentials"
    ELSE IF status = 404 THEN "Not Found"
    ELSE IF status = 409 THEN "Git Repository is empty."
    ELSE IF status = 422 THEN "Validation Failed"
    ELSE IF status = 429 THEN "API rate limit exceeded"
    ELSE "Unknown error"

\* GitHubAPI._request: the exception it raises for a response, NoExc when it
\* returns the response's JSON.
Request(status) ==
    IF status = NoResponse
    THEN GitHubAPIError("Network error: connection failed", 0)
    ELSE IF status >= 400
    THEN GitHubAPIError(ResponseMessage(status), status)
    ELSE NoExc

\* Object ids of the remote store: content-addressed.
BlobSha(content) == [kind |-> "blob", content |-> content.tag]
TreeSha(entries, base) == [kind |-> "tree", entries |-> entries, base |-> base]
CommitSha(message, tree, parent) ==
    [kind |-> "commit", message |-> message, tree |-> tree, parent |-> parent]
\* The commit auto_init creates: the generated README.
InitialCommit == CommitSha("Initial commit", TreeSha(<<>>, NoSha), NoSha)

\* Python truthiness of an optional id.
Truthy(sha) == sha # NoSha

(***************************************************************************)
(* State.                                                                  *)
(***************************************************************************)
VARIABLES
    pc,            \* the statement of publish that runs next
    srcKind,       \* what source_path is: "dir", "file", "missing", "error"
    repoExists,    \* whether the remote repository exists when publish is called
    disk,          \* the files under the source directory
    os_sep,        \* the path separator of the operating system
    files,         \* self.files
    tree_entries,  \* self.tree_entries
    idx,           \* upload_blobs: the 1-based index i of the next entry
    uploaded,      \* upload_blobs: uploaded
    failed,        \* upload_blobs: failed
    user_cache,    \* GitHubAPI._user ("" while unset)
    parent_sha,    \* create_commit: parent_sha
    tree_sha,      \* create_commit: tree.sha
    commit_sha,    \* create_commit: commit.sha
    result,        \* publish: result
    exc,           \* the exception publish caught at its boundary
    calls,         \* the requests sent to the remote service, in order
    default_branch, \* RepoResponse.default_branch ("" before the repository is created)
    exit_code      \* main: the status the process exited with (Running before)

\* The exit status of the process while main has not yet left.
Running == -1

vars == <<pc, srcKind, repoExists, disk, os_sep, files, tree_entries, idx,
          uploaded, failed, user_cache, parent_sha, tree_sha, commit_sha,
          result, exc, calls, default_branch, exit_code>>

env == <<srcKind, repoExists, os_sep>>
locals == <<idx, uploaded, failed, parent_sha, tree_sha, commit_sha>>

Init ==
    /\ pc = "validate_source"
    /\ srcKind \in {"dir", "file", "missing", "error"}
    /\ repoExists \in BOOLEAN
    /\ disk \in (IF srcKind = "dir" THEN Disks ELSE {{}})
    /\ os_sep \in {Slash, Backslash}
    /\ files = <<>>
    /\ tree_entries = <<>>
    /\ idx = 1
    /\ uploaded = 0
    /\ failed = 0
    /\ user_cache = NoneStr
    /\ parent_sha = NoSha
    /\ tree_sha = NoSha
    /\ commit_sha = NoSha
    /\ result = PublishResult
    /\ exc = NoExc
    /\ calls = <<>>
    /\ default_branch = ""
    /\ exit_code = Running

(***************************************************************************)
(* Helpers of the actions.                                                 *)
(***************************************************************************)
\* One request as the remote service saw it.
Call(op, status, arg, res) == [op |-> op, status |-> status, arg |-> arg, res |-> res]

IsOk(status) == Request(status) = NoExc

\* GitHubAPI.user: the GET /user that the property issues while _user is
\* unset, answered with status us; nothing once _user is cached.
UserStatuses == IF user_cache = NoneStr THEN {NoResponse, 200, 401} ELSE {200}
UserCalls(us) ==
    IF user_cache = NoneStr THEN <<Call("getUser", us, NoSha, NoSha)>> ELSE <<>>
UserAfter(us) ==
    IF user_cache = NoneStr /\ IsOk(us) THEN "octocat" ELSE user_cache
\* The exception the property raises (NoExc when it returns the login).
UserExc(us) == IF user_cache = NoneStr THEN Request(us) ELSE NoExc

\* publish: "except GitHubAPIError as e" and "except Exception as e": both
\* store the message and return the result as it stands.
PublishExcept(e) ==
    /\ result' = [result EXCEPT !.error = e.message]
    /\ exc' = e
    /\ pc' = "done"

\* publish: an early "return result" with an error message.
ReturnError(message) ==
    /\ result' = [result EXCEPT !.error = message]
    /\ exc' = exc
    /\ pc' = "done"

(***************************************************************************)
(* publish, step 1: validate_source.                                       *)
(***************************************************************************)
\* Fault: only a missing path is refused; a path that is a file goes on.
ValidateSource_ExistsOnly ==
    /\ pc = "validate_source"
    /\ IF srcKind = "error"
       THEN PublishExcept([type |-> "OSError", message |-> "Permission denied",
                           status_code |-> 0])
       ELSE IF srcKind = "missing"
       THEN ReturnError("Invalid source path")
       ELSE /\ pc' = "check_repo_exists"
            /\ UNCHANGED <<result, exc>>
    /\ UNCHANGED <<env, disk, exit_code, default_branch, files, tree_entries, locals, user_cache, calls>>

\* Fault: the existence check of step 2 is skipped; collection comes first.
ValidateSource_CollectFirst ==
    /\ pc = "validate_source"
    /\ IF srcKind = "error"
       THEN PublishExcept([type |-> "OSError", message |-> "Permission denied",
                           status_code |-> 0])
       ELSE IF srcKind = "missing" \/ srcKind = "file"
       THEN ReturnError("Invalid source path")
       ELSE /\ pc' = "collect_files"
            /\ UNCHANGED <<result, exc>>
    /\ UNCHANGED <<env, disk, exit_code, default_branch, files, tree_entries, locals, user_cache, calls>>

ValidateSource ==
    /\ pc = "validate_source"
    /\ IF srcKind = "error"
       THEN PublishExcept([type |-> "OSError", message |-> "Permission denied",
                           status_code |-> 0])
       ELSE IF srcKind = "missing" \/ srcKind = "file"
       THEN ReturnError("Invalid source path")
       ELSE /\ pc' = "check_repo_exists"
            /\ UNCHANGED <<result, exc>>
    /\ UNCHANGED <<env, disk, exit_code, default_branch, files, tree_entries, locals, user_cache, calls>>

(***************************************************************************)
(* publish, step 2: check_repo_exists.                                     *)
(***************************************************************************)
\* GET /repos/{user}/{repo}: 200 for a repository that exists, 404 for one
\* that does not; either may fail otherwise.
RepoStatuses == IF repoExists THEN {NoResponse, 200, 429} ELSE {NoResponse, 404, 429}

\* Fault: "except GitHubAPIError: return False", whatever the status.
check_repo_exists_AnyErrorAbsent(e) ==
    IF e = NoExc THEN "exists" ELSE "absent"

\* check_repo_exists: "exists", "absent", or the exception it lets through.
check_repo_exists(e) ==
    IF e = NoExc THEN "exists"
    ELSE IF e.status_code = 404 THEN "absent"
    ELSE "raise"

CheckRepoExists ==
    /\ pc = "check_repo_exists"
    /\ \E us \in UserStatuses, st \in RepoStatuses :
        LET e == IF UserExc(us) # NoExc THEN UserExc(us) ELSE Request(st)
            sent == IF UserExc(us) # NoExc THEN UserCalls(us)
                    ELSE UserCalls(us) \o <<Call("getRepo", st, NoSha, NoSha)>>
            r == check_repo_exists(e)
        IN /\ calls' = calls \o sent
           /\ user_cache' = UserAfter(us)
           /\ IF r = "raise" THEN PublishExcept(e)
              ELSE IF r = "exists" THEN ReturnError("Repository already exists")
              ELSE /\ pc' = "collect_files"
                   /\ UNCHANGED <<result, exc>>
    /\ UNCHANGED <<env, disk, exit_code, default_branch, files, tree_entries, locals>>

(***************************************************************************)
(* publish, step 3: collect_files.                                         *)
(***************************************************************************)
\* GitHubPublisher.collect_files: the entries of the files that could be
\* read, in the order of utils.collect_files, paths with forward slashes.
RECURSIVE ReadEntries(_, _)
ReadEntries(paths, sep) ==
    IF Len(paths) = 0 THEN <<>>
    ELSE LET f == Head(paths)
             entry == FileEntry(ReplaceBackslash(PathStr(f.parts, sep)),
                                [tag |-> ContentTag(f.parts), len |-> f.size])
         IN (IF f.readable THEN <<entry>> ELSE <<>>) \o ReadEntries(Tail(paths), sep)

\* Fault: the "file_count == 0" return is missing.
CollectFiles_NoEmptyCheck ==
    /\ pc = "collect_files"
    /\ \E walkOk \in BOOLEAN :
        IF ~walkOk
        THEN /\ PublishExcept([type |-> "OSError", message |-> "Input/output error",
                               status_code |-> 0])
             /\ files' = files
        ELSE /\ files' = ReadEntries(collect_files(disk, SKIP_PATTERNS, os_sep), os_sep)
             /\ pc' = "create_repository"
             /\ UNCHANGED <<result, exc>>
    /\ UNCHANGED <<env, disk, exit_code, default_branch, tree_entries, locals, user_cache, calls>>

CollectFiles ==
    /\ pc = "collect_files"
    /\ \E walkOk \in BOOLEAN :
        IF ~walkOk
        THEN \* the walk of the directory raises
             /\ PublishExcept([type |-> "OSError", message |-> "Input/output error",
                               status_code |-> 0])
             /\ files' = files
        ELSE /\ files' = ReadEntries(collect_files(disk, SKIP_PATTERNS, os_sep), os_sep)
             /\ IF Len(files') = 0
                THEN ReturnError("No files to upload")
                ELSE /\ pc' = "create_repository"
                     /\ UNCHANGED <<result, exc>>
    /\ UNCHANGED <<env, disk, exit_code, default_branch, tree_entries, locals, user_cache, calls>>

(***************************************************************************)
(* publish, step 4: create_repository; step 5: set_topics.                 *)
(***************************************************************************)
\* The names a new repository's default branch may have (an account
\* setting); create_repository reads it as data.get("default_branch", "main").
DefaultBranches == {"main", "master"}

\* Fault: a failed creation is not raised; the run goes on.
CreateRepository_ErrorIgnored ==
    /\ pc = "create_repository"
    /\ \E st \in {NoResponse, 201, 422}, branch \in DefaultBranches :
        /\ calls' = Append(calls, Call("createRepository", st, NoSha, NoSha))
        /\ result' = [result EXCEPT !.repo_url = "https://github.com/octocat/repo"]
        /\ default_branch' = branch
        /\ pc' = "set_topics"
        /\ exc' = exc
    /\ UNCHANGED <<env, disk, exit_code, files, tree_entries, locals, user_cache>>

CreateRepository ==
    /\ pc = "create_repository"
    /\ \E st \in {NoResponse, 201, 422}, branch \in DefaultBranches :
        /\ calls' = Append(calls, Call("createRepository", st, NoSha, NoSha))
        /\ IF IsOk(st)
           THEN /\ result' = [result EXCEPT !.repo_url = "https://github.com/octocat/repo"]
                /\ default_branch' = branch
                /\ pc' = "set_topics"
                /\ exc' = exc
           ELSE /\ PublishExcept(Request(st))
                /\ default_branch' = default_branch
    /\ UNCHANGED <<env, disk, exit_code, files, tree_entries, locals, user_cache>>

\* GitHubAPI.set_topics: the exception it raises, NoExc when it returns.
set_topics(topics, us, st) ==
    IF Len(topics) = 0 THEN NoExc
    ELSE IF UserExc(us) # NoExc THEN UserExc(us)
    ELSE Request(st)

SetTopics ==
    /\ pc = "set_topics"
    /\ \E topicsArg \in {<<>>, <<"cli">>}, us \in UserStatuses, st \in {NoResponse, 200, 422} :
        LET topics == IF Len(topicsArg) = 0 THEN DEFAULT_TOPICS ELSE topicsArg
            e == set_topics(topics, us, st)
            sent == IF Len(topics) = 0 THEN <<>>
                    ELSE IF UserExc(us) # NoExc THEN UserCalls(us)
                    ELSE UserCalls(us) \o <<Call("setTopics", st, NoSha, NoSha)>>
        IN /\ calls' = calls \o sent
           /\ user_cache' = IF Len(topics) = 0 THEN user_cache ELSE UserAfter(us)
           /\ IF e = NoExc
              THEN /\ pc' = "upload_blobs"
                   /\ UNCHANGED <<result, exc>>
              ELSE PublishExcept(e)
    /\ UNCHANGED <<env, disk, exit_code, default_branch, files, tree_entries, locals>>

(***************************************************************************)
(* publish, step 6: upload_blobs.                                          *)
(***************************************************************************)
\* Fault: the size is compared in the wrong unit (GB for MB).
TooLarge_WrongUnit(content) ==
    content.len \div (1024 * 1024 * 1024) > MAX_FILE_SIZE_MB

\* create_blob's local check: size_mb = len(content) / (1024 * 1024) is an
\* exact quotient, so size_mb > MAX_FILE_SIZE_MB iff len(content) > MaxBytes.
\* Fault: content exactly at the ceiling is rejected too.
TooLarge_AtCeiling(content) == content.len >= MaxBytes

TooLarge(content) == content.len > MaxBytes

\* GitHubAPI.create_blob: the exception it raises, NoExc when it returns
\* the BlobResponse.  The size check comes before self.user and the POST;
\* both of these lie in the try that rewraps a GitHubAPIError.
create_blob(content, us, st) ==
    IF TooLarge(content)
    THEN GitHubAPIError("File too large: " \o format_size(content.len), 0)
    ELSE LET e == IF UserExc(us) # NoExc THEN UserExc(us) ELSE Request(st)
         IN IF e = NoExc THEN NoExc
            ELSE GitHubAPIError("Blob create failed: " \o e.message, e.status_code)

\* The requests create_blob sends.
create_blob_calls(content, us, st) ==
    IF TooLarge(content) THEN <<>>
    ELSE IF UserExc(us) # NoExc THEN UserCalls(us)
    ELSE UserCalls(us) \o
         <<Call("createBlob", st, content,
                IF IsOk(st) THEN BlobSha(content) ELSE NoSha)>>

\* Fault: the tree entry is appended after the try, for a failed entry too.
UploadBlob_AppendAlways ==
    /\ pc = "upload_blobs"
    /\ idx <= Len(files)
    /\ \E us \in UserStatuses, st \in {NoResponse, 201, 429} :
        LET entry == files[idx]
            e == create_blob(entry.content, us, st)
        IN /\ calls' = calls \o create_blob_calls(entry.content, us, st)
           /\ user_cache' = IF TooLarge(entry.content) THEN user_cache ELSE UserAfter(us)
           /\ IF e = NoExc
              THEN /\ files' = [files EXCEPT ![idx].sha = BlobSha(entry.content),
                                             ![idx].status = "success"]
                   /\ uploaded' = uploaded + 1
                   /\ failed' = failed
              ELSE /\ files' = [files EXCEPT ![idx].status = "failed",
                                             ![idx].error = e.message]
                   /\ failed' = failed + 1
                   /\ uploaded' = uploaded
           /\ tree_entries' = Append(tree_entries, TreeEntry(entry.path, files'[idx].sha))
    /\ idx' = idx + 1
    /\ UNCHANGED <<env, disk, exit_code, default_branch, pc, parent_sha, tree_sha, commit_sha, result, exc>>

\* Fault: a blob request that failed is sent a second time.
UploadBlob_RetryOnce ==
    /\ pc = "upload_blobs"
    /\ idx <= Len(files)
    /\ \E us \in UserStatuses, st \in {NoResponse, 201, 429} :
        LET entry == files[idx]
            e == create_blob(entry.content, us, st)
            sent == create_blob_calls(entry.content, us, st)
        IN /\ calls' = calls \o sent \o (IF e = NoExc THEN <<>> ELSE sent)
           /\ user_cache' = IF TooLarge(entry.content) THEN user_cache ELSE UserAfter(us)
           /\ IF e = NoExc
              THEN /\ files' = [files EXCEPT ![idx].sha = BlobSha(entry.content),
                                             ![idx].status = "success"]
                   /\ uploaded' = uploaded + 1
                   /\ tree_entries' = Append(tree_entries,
                                             TreeEntry(entry.path, BlobSha(entry.content)))
                   /\ failed' = failed
              ELSE /\ files' = [files EXCEPT ![idx].status = "failed",
                                             ![idx].error = e.message]
                   /\ failed' = failed + 1
                   /\ UNCHANGED <<uploaded, tree_entries>>
    /\ idx' = idx + 1
    /\ UNCHANGED <<env, disk, exit_code, default_branch, pc, parent_sha, tree_sha, commit_sha, result, exc>>

\* Fault: no try around create_blob: the first failure ends the run.
UploadBlob_FailFast ==
    /\ pc = "upload_blobs"
    /\ idx <= Len(files)
    /\ \E us \in UserStatuses, st \in {NoResponse, 201, 429} :
        LET entry == files[idx]
            e == create_blob(entry.content, us, st)
        IN /\ calls' = calls \o create_blob_calls(entry.content, us, st)
           /\ user_cache' = IF TooLarge(entry.content) THEN user_cache ELSE UserAfter(us)
           /\ IF e = NoExc
              THEN /\ files' = [files EXCEPT ![idx].sha = BlobSha(entry.content),
                                             ![idx].status = "success"]
                   /\ uploaded' = uploaded + 1
                   /\ tree_entries' = Append(tree_entries,
                                             TreeEntry(entry.path, BlobSha(entry.content)))
                   /\ idx' = idx + 1
                   /\ UNCHANGED <<failed, pc, result, exc>>
              ELSE /\ PublishExcept(e)
                   /\ UNCHANGED <<files, uploaded, failed, tree_entries, idx>>
    /\ UNCHANGED <<env, disk, exit_code, default_branch, parent_sha, tree_sha, commit_sha>>

\* One iteration of the loop of upload_blobs, on entry idx.
UploadBlob ==
    /\ pc = "upload_blobs"
    /\ idx <= Len(files)
    /\ \E us \in UserStatuses, st \in {NoResponse, 201, 429} :
        LET entry == files[idx]
            e == create_blob(entry.content, us, st)
        IN /\ calls' = calls \o create_blob_calls(entry.content, us, st)
           /\ user_cache' = IF TooLarge(entry.content) THEN user_cache ELSE UserAfter(us)
           /\ IF e = NoExc
              THEN /\ files' = [files EXCEPT ![idx].sha = BlobSha(entry.content),
                                             ![idx].status = "success"]
                   /\ uploaded' = uploaded + 1
                   /\ tree_entries' = Append(tree_entries,
                                             TreeEntry(entry.path, BlobSha(entry.content)))
                   /\ failed' = failed
              ELSE /\ files' = [files EXCEPT ![idx].status = "failed",
                                             ![idx].error = e.message]
                   /\ failed' = failed + 1
                   /\ UNCHANGED <<uploaded, tree_entries>>
    /\ idx' = idx + 1
    /\ UNCHANGED <<env, disk, exit_code, default_branch, pc, parent_sha, tree_sha, commit_sha, result, exc>>

\* Fault: files_uploaded counts the attempts, not the uploads.
UploadBlobsReturn_CountsAttempts ==
    /\ pc = "upload_blobs"
    /\ idx > Len(files)
    /\ result' = [result EXCEPT !.files_uploaded = uploaded + failed,
                                !.files_skipped = Len(files) - (uploaded + failed)]
    /\ pc' = "create_commit"
    /\ UNCHANGED <<env, disk, exit_code, default_branch, files, tree_entries, locals, user_cache, exc, calls>>

\* Fault: files_skipped counts against the files of the directory, not
\* against the collected ones.
UploadBlobsReturn_SkippedFromDisk ==
    /\ pc = "upload_blobs"
    /\ idx > Len(files)
    /\ result' = [result EXCEPT !.files_uploaded = uploaded,
                                !.files_skipped = Cardinality(disk) - uploaded]
    /\ pc' = "create_commit"
    /\ UNCHANGED <<env, disk, exit_code, default_branch, files, tree_entries, locals, user_cache, exc, calls>>

\* upload_blobs returns uploaded; publish stores the counts.
UploadBlobsReturn ==
    /\ pc = "upload_blobs"
    /\ idx > Len(files)
    /\ result' = [result EXCEPT !.files_uploaded = uploaded,
                                !.files_skipped = Len(files) - uploaded]
    /\ pc' = "create_commit"
    /\ UNCHANGED <<env, disk, exit_code, default_branch, files, tree_entries, locals, user_cache, exc, calls>>

(***************************************************************************)
(* publish, step 7: create_commit.                                         *)
(***************************************************************************)
\* The commit at the head of the default branch of the repository created
\* (auto_init gives it one commit), until update_ref moves the branch.
RemoteHead == IF default_branch = "" THEN NoSha ELSE InitialCommit

\* Whether the repository has the branch "main", the one the code names.
MainExists == default_branch = "main"

\* GET .../git/refs/heads/main of the repository just created: the head of
\* auto_init when that branch exists, 404 when it does not; either may
\* fail otherwise.
HeadStatuses == IF MainExists THEN {NoResponse, 200, 429} ELSE {NoResponse, 404}

\* PATCH .../git/refs/heads/main: a reference that does not exist cannot be
\* updated (422).
RefStatuses == IF MainExists THEN {NoResponse, 200, 422} ELSE {NoResponse, 422}

\* GitHubAPI.get_default_branch_sha: any GitHubAPIError gives None.
get_default_branch_sha(us, st) ==
    IF UserExc(us) # NoExc \/ Request(st) # NoExc THEN NoSha ELSE InitialCommit

\* Fault: no "if not self.tree_entries" return: the head is looked up and
\* an empty tree committed.
GetDefaultBranchSha_NoEmptyCheck ==
    /\ pc = "create_commit"
    /\ \E us \in UserStatuses, st \in HeadStatuses :
        /\ parent_sha' = get_default_branch_sha(us, st)
        /\ calls' = calls \o
             (IF UserExc(us) # NoExc THEN UserCalls(us)
              ELSE UserCalls(us) \o
                   <<Call("getRef", st, "heads/main",
                          IF IsOk(st) THEN InitialCommit ELSE NoSha)>>)
        /\ user_cache' = UserAfter(us)
        /\ pc' = "create_tree"
    /\ UNCHANGED <<env, disk, exit_code, default_branch, files, tree_entries, idx, uploaded, failed,
                   tree_sha, commit_sha, result, exc>>

\* create_commit: the empty check, then the head lookup.
GetDefaultBranchSha ==
    /\ pc = "create_commit"
    /\ IF Len(tree_entries) = 0
       THEN \* "No files to commit": create_commit returns None
            /\ pc' = "print_summary"
            /\ UNCHANGED <<parent_sha, user_cache, calls>>
       ELSE \E us \in UserStatuses, st \in HeadStatuses :
            /\ parent_sha' = get_default_branch_sha(us, st)
            /\ calls' = calls \o
                 (IF UserExc(us) # NoExc THEN UserCalls(us)
                  ELSE UserCalls(us) \o
                       <<Call("getRef", st, "heads/main",
                              IF IsOk(st) THEN InitialCommit ELSE NoSha)>>)
            /\ user_cache' = UserAfter(us)
            /\ pc' = "create_tree"
    /\ UNCHANGED <<env, disk, exit_code, default_branch, files, tree_entries, idx, uploaded, failed,
                   tree_sha, commit_sha, result, exc>>

\* The base_tree of the payload: "if base_tree:".
BaseTree(sha) == IF Truthy(sha) THEN sha ELSE NoSha

CreateTree ==
    /\ pc = "create_tree"
    /\ \E us \in UserStatuses, st \in {NoResponse, 201, 422} :
        LET e == IF UserExc(us) # NoExc THEN UserExc(us) ELSE Request(st)
            arg == [entries |-> tree_entries, base_tree |-> BaseTree(parent_sha)]
            sha == TreeSha(tree_entries, BaseTree(parent_sha))
        IN /\ calls' = calls \o
                 (IF UserExc(us) # NoExc THEN UserCalls(us)
                  ELSE UserCalls(us) \o
                       <<Call("createTree", st, arg, IF IsOk(st) THEN sha ELSE NoSha)>>)
           /\ user_cache' = UserAfter(us)
           /\ IF e = NoExc
              THEN /\ tree_sha' = sha
                   /\ pc' = "create_commit_object"
                   /\ UNCHANGED <<result, exc>>
              ELSE /\ PublishExcept(e)
                   /\ tree_sha' = tree_sha
    /\ UNCHANGED <<env, disk, exit_code, default_branch, files, tree_entries, idx, uploaded, failed,
                   parent_sha, commit_sha>>

\* Fault: tree and parent are passed in each other's place.
CreateCommit_SwappedIds ==
    /\ pc = "create_commit_object"
    /\ \E us \in UserStatuses, st \in {NoResponse, 201, 422} :
        LET e == IF UserExc(us) # NoExc THEN UserExc(us) ELSE Request(st)
            arg == [message |-> "Initial commit", tree |-> parent_sha,
                    parents |-> IF Truthy(tree_sha) THEN <<tree_sha>> ELSE <<>>]
            sha == CommitSha("Initial commit", parent_sha, tree_sha)
        IN /\ calls' = calls \o
                 (IF UserExc(us) # NoExc THEN UserCalls(us)
                  ELSE UserCalls(us) \o
                       <<Call("createCommit", st, arg, IF IsOk(st) THEN sha ELSE NoSha)>>)
           /\ user_cache' = UserAfter(us)
           /\ IF e = NoExc
              THEN /\ commit_sha' = sha
                   /\ pc' = "update_ref"
                   /\ UNCHANGED <<result, exc>>
              ELSE /\ PublishExcept(e)
                   /\ commit_sha' = commit_sha
    /\ UNCHANGED <<env, disk, exit_code, default_branch, files, tree_entries, idx, uploaded, failed,
                   parent_sha, tree_sha>>

CreateCommit ==
    /\ pc = "create_commit_object"
    /\ \E us \in UserStatuses, st \in {NoResponse, 201, 422} :
        LET e == IF UserExc(us) # NoExc THEN UserExc(us) ELSE Request(st)
            arg == [message |-> "Initial commit", tree |-> tree_sha,
                    parents |-> IF Truthy(parent_sha) THEN <<parent_sha>> ELSE <<>>]
            sha == CommitSha("Initial commit", tree_sha, parent_sha)
        IN /\ calls' = calls \o
                 (IF UserExc(us) # NoExc THEN UserCalls(us)
                  ELSE UserCalls(us) \o
                       <<Call("createCommit", st, arg, IF IsOk(st) THEN sha ELSE NoSha)>>)
           /\ user_cache' = UserAfter(us)
           /\ IF e = NoExc
              THEN /\ commit_sha' = sha
                   /\ pc' = "update_ref"
                   /\ UNCHANGED <<result, exc>>
              ELSE /\ PublishExcept(e)
                   /\ commit_sha' = commit_sha
    /\ UNCHANGED <<env, disk, exit_code, default_branch, files, tree_entries, idx, uploaded, failed,
                   parent_sha, tree_sha>>

\* Fault: a failed update_ref is sent again.
UpdateRef_Retry ==
    /\ pc = "update_ref"
    /\ \E us \in UserStatuses, st \in RefStatuses :
        LET e == IF UserExc(us) # NoExc THEN UserExc(us) ELSE Request(st)
            arg == [ref |-> "heads/main", sha |-> commit_sha, force |-> TRUE]
        IN /\ calls' = calls \o
                 (IF UserExc(us) # NoExc THEN UserCalls(us)
                  ELSE UserCalls(us) \o <<Call("updateRef", st, arg, NoSha)>>)
           /\ user_cache' = UserAfter(us)
           /\ IF e = NoExc
              THEN /\ result' = [result EXCEPT !.commit_sha = commit_sha,
                                               !.success = TRUE]
                   /\ pc' = "print_summary"
                   /\ exc' = exc
              ELSE /\ Len(calls) < 12
                   /\ UNCHANGED <<result, exc, pc>>
    /\ UNCHANGED <<env, disk, exit_code, default_branch, files, tree_entries, locals>>

\* Fault: the error of update_ref is caught and logged inside create_commit.
UpdateRef_ErrorSwallowed ==
    /\ pc = "update_ref"
    /\ \E us \in UserStatuses, st \in RefStatuses :
        LET arg == [ref |-> "heads/main", sha |-> commit_sha, force |-> TRUE]
        IN /\ calls' = calls \o
                 (IF UserExc(us) # NoExc THEN UserCalls(us)
                  ELSE UserCalls(us) \o <<Call("updateRef", st, arg, NoSha)>>)
           /\ user_cache' = UserAfter(us)
           /\ result' = [result EXCEPT !.commit_sha = commit_sha, !.success = TRUE]
           /\ pc' = "print_summary"
           /\ exc' = exc
    /\ UNCHANGED <<env, disk, exit_code, default_branch, files, tree_entries, locals>>

\* update_ref("heads/main", commit.sha, force=True); on its return
\* create_commit returns commit.sha and publish sets commit_sha and success.
UpdateRef ==
    /\ pc = "update_ref"
    /\ \E us \in UserStatuses, st \in RefStatuses :
        LET e == IF UserExc(us) # NoExc THEN UserExc(us) ELSE Request(st)
            arg == [ref |-> "heads/main", sha |-> commit_sha, force |-> TRUE]
        IN /\ calls' = calls \o
                 (IF UserExc(us) # NoExc THEN UserCalls(us)
                  ELSE UserCalls(us) \o <<Call("updateRef", st, arg, NoSha)>>)
           /\ user_cache' = UserAfter(us)
           /\ IF e = NoExc
              THEN /\ IF Truthy(commit_sha)
                      THEN result' = [result EXCEPT !.commit_sha = commit_sha,
                                                    !.success = TRUE]
                      ELSE result' = result
                   /\ pc' = "print_summary"
                   /\ exc' = exc
              ELSE PublishExcept(e)
    /\ UNCHANGED <<env, disk, exit_code, default_branch, files, tree_entries, locals>>

(***************************************************************************)
(* publish: print_summary and "return result".                             *)
(***************************************************************************)
\* print_summary writes to the console inside the try of publish; the
\* write may raise (an encoding error on the box-drawing rule, a closed
\* stream), and the handler of publish then stores the message.
\* Fault: the print never returns.
PrintSummary_Blocks ==
    /\ pc = "print_summary"
    /\ UNCHANGED vars

PrintSummary ==
    /\ pc = "print_summary"
    /\ \E printed \in BOOLEAN :
        IF printed
        THEN /\ pc' = "done"
             /\ UNCHANGED <<result, exc>>
        ELSE PublishExcept([type |-> "UnicodeEncodeError",
                            message |-> "'charmap' codec can't encode characters",
                            status_code |-> 0])
    /\ UNCHANGED <<env, disk, exit_code, default_branch, files, tree_entries, locals, user_cache, calls>>

(***************************************************************************)
(* main.py: what main does with the PublishResult.                         *)
(***************************************************************************)
\* Fault: the status does not depend on the result.
MainExit_AlwaysZero ==
    /\ pc = "done"
    /\ exit_code = Running
    /\ exit_code' = 0
    /\ UNCHANGED <<env, disk, default_branch, pc, files, tree_entries, locals,
                   user_cache, result, exc, calls>>

\* sys.exit(0) after the lines of the success branch, sys.exit(1) after
\* those of the failure branch; a print that raises leaves the interpreter
\* with status 1.
MainExit ==
    /\ pc = "done"
    /\ exit_code = Running
    /\ \E printed \in BOOLEAN :
        exit_code' = IF ~printed THEN 1
                     ELSE IF result.success THEN 0 ELSE 1
    /\ UNCHANGED <<env, disk, default_branch, pc, files, tree_entries, locals,
                   user_cache, result, exc, calls>>

Next ==
    \/ ValidateSource
    \/ CheckRepoExists
    \/ CollectFiles
    \/ CreateRepository
    \/ SetTopics
    \/ UploadBlob
    \/ UploadBlobsReturn
    \/ GetDefaultBranchSha
    \/ CreateTree
    \/ CreateCommit
    \/ UpdateRef
    \/ PrintSummary
    \/ MainExit

Spec == Init /\ [][Next]_vars

\* The run is one sequential thread: while a step is possible, one is taken
\* (every remote call returns, with a response or an error).
SpecLive == Spec /\ WF_vars(Next)

(***************************************************************************)
(* GitHubAPI on its own: create_blob called on a client that has not yet   *)
(* looked up its user (_user is None), once for each entry of a list of    *)
(* files, as upload_blobs calls it.                                        *)
(***************************************************************************)
ApiInit ==
    /\ pc = "upload_blobs"
    /\ srcKind = "dir"
    /\ repoExists = FALSE
    /\ disk \in Disks
    /\ os_sep \in {Slash, Backslash}
    /\ files = ReadEntries(collect_files(disk, SKIP_PATTERNS, os_sep), os_sep)
    /\ tree_entries = <<>>
    /\ idx = 1
    /\ uploaded = 0
    /\ failed = 0
    /\ user_cache = NoneStr
    /\ parent_sha = NoSha
    /\ tree_sha = NoSha
    /\ commit_sha = NoSha
    /\ result = PublishResult
    /\ exc = NoExc
    /\ calls = <<>>
    /\ default_branch = "main"
    /\ exit_code = Running

ApiNext == UploadBlob

SpecApi == ApiInit /\ [][ApiNext]_vars

(***************************************************************************)
(* GitHubAPI._request on its own: a client that sends up to MaxRequests    *)
(* requests, each answered by any response or by none.                     *)
(***************************************************************************)
MaxRequests == 2

\* The answers: none at all, or a status with a body.
ResponseStatuses == {NoResponse, 200, 201, 204, 304, 404, 422, 502}
\* The body: a JSON object with "message", a JSON object without it, or
\* text that is not JSON (the HTML page of a gateway, an empty body).
ResponseBodies == {"message", "json", "not_json"}

\* response.json() on a body that is not JSON raises JSONDecodeError, which
\* is a requests.RequestException in some releases of requests (caught and
\* rewrapped by _request) and only a ValueError in others (not caught).
JsonFailure ==
    { GitHubAPIError("Network error: Expecting value", 0),
      [type |-> "JSONDecodeError", message |-> "Expecting value", status_code |-> 0] }

Raised(e) == [raised |-> e, value |-> "none"]
Returned(v) == [raised |-> NoExc, value |-> v]

\* GitHubAPI._request: the outcomes of one request, as the exception raised
\* or the value returned.
_request(status, body) ==
    IF status = NoResponse
    THEN {Raised(GitHubAPIError("Network error: connection failed", 0))}
    ELSE IF status >= 400
    THEN IF body = "not_json" THEN {Raised(e) : e \in JsonFailure}
         ELSE {Raised(GitHubAPIError(IF body = "message" THEN ResponseMessage(status)
                                     ELSE "Unknown error", status))}
    ELSE IF status = 204 THEN {Returned("empty")}
    ELSE IF body = "not_json" THEN {Raised(e) : e \in JsonFailure}
    ELSE {Returned(body)}

RequestInit ==
    /\ pc = "request"
    /\ srcKind = "dir"
    /\ repoExists = FALSE
    /\ disk = {}
    /\ os_sep = Slash
    /\ files = <<>>
    /\ tree_entries = <<>>
    /\ idx = 1
    /\ uploaded = 0
    /\ failed = 0
    /\ user_cache = NoneStr
    /\ parent_sha = NoSha
    /\ tree_sha = NoSha
    /\ commit_sha = NoSha
    /\ result = PublishResult
    /\ exc = NoExc
    /\ calls = <<>>
    /\ default_branch = ""
    /\ exit_code = Running

SendRequest ==
    /\ pc = "request"
    /\ Len(calls) < MaxRequests
    /\ \E status \in ResponseStatuses, body \in ResponseBodies :
        \E out \in _request(status, body) :
            /\ calls' = Append(calls, Call("request", status, body, out))
            /\ exc' = out.raised
    /\ UNCHANGED <<env, disk, exit_code, default_branch, pc, files, tree_entries,
                   locals, user_cache, result>>

RequestNext == SendRequest

SpecRequest == RequestInit /\ [][RequestNext]_vars

(***************************************************************************)
(* Reading the record of requests.                                         *)
(***************************************************************************)
CallsOf(op) == {k \in 1..Len(calls) : calls[k].op = op}
OkCallsOf(op) == {k \in CallsOf(op) : IsOk(calls[k].status)}
FailedCallsOf(op) == CallsOf(op) \ OkCallsOf(op)

\* The requests that write to the remote store.
WriteOps ==
    {"createRepository", "setTopics", "createBlob", "createTree",
     "createCommit", "createRef", "updateRef"}
NoWrites == \A k \in 1..Len(calls) : calls[k].op \notin WriteOps

\* The tree entries that the entries with status success give, in order.
RECURSIVE UploadedEntries(_)
UploadedEntries(fs) ==
    IF Len(fs) = 0 THEN <<>>
    ELSE (IF Head(fs).status = "success"
          THEN <<TreeEntry(Head(fs).path, Head(fs).sha)>> ELSE <<>>)
         \o UploadedEntries(Tail(fs))

Attempted(k) == files[k].status # "pending"
AllAttempted == \A k \in 1..Len(files) : Attempted(k)

(***************************************************************************)
(* C1: updateRef is sent at most once in a run, exactly once in a run      *)
(* that ends with success = true, and only after a createCommit of this   *)
(* run returned the commit it names, made for a tree that a createTree of  *)
(* this run returned.                                                      *)
(***************************************************************************)
C1_UpdateRefOnceAfterCommit ==
    /\ Cardinality(CallsOf("updateRef")) <= 1
    /\ (pc = "done" /\ result.success) => Cardinality(CallsOf("updateRef")) = 1
    /\ \A k \in CallsOf("updateRef") :
         \E j \in OkCallsOf("createCommit"), i \in OkCallsOf("createTree") :
            /\ i < j /\ j < k
            /\ calls[k].arg.sha = calls[j].res
            /\ calls[j].arg.tree = calls[i].res

C1_Witness ==
    /\ pc = "done"
    /\ result.success
    /\ Cardinality(OkCallsOf("updateRef")) = 1

(***************************************************************************)
(* C2: the remote writes of a run come in dependency order: a successful   *)
(* createRepository before every createBlob, every createBlob before       *)
(* createTree, a successful createTree before createCommit, a successful   *)
(* createCommit before updateRef; the tree names only blob ids that an     *)
(* earlier createBlob returned, the commit the tree id createTree returned.*)
(***************************************************************************)
C2_DependencyOrder ==
    /\ \A k \in CallsOf("createBlob") :
         \E j \in OkCallsOf("createRepository") : j < k
    /\ \A k \in CallsOf("createTree") :
         /\ \A j \in CallsOf("createBlob") : j < k
         /\ AllAttempted
         /\ \A n \in 1..Len(calls[k].arg.entries) :
              \E j \in OkCallsOf("createBlob") :
                 j < k /\ calls[j].res = calls[k].arg.entries[n].sha
    /\ \A k \in CallsOf("createCommit") :
         \E j \in OkCallsOf("createTree") :
            j < k /\ calls[k].arg.tree = calls[j].res
    /\ \A k \in CallsOf("updateRef") :
         \E j \in OkCallsOf("createCommit") :
            j < k /\ calls[k].arg.sha = calls[j].res

C2_Witness ==
    /\ pc = "done"
    /\ OkCallsOf("updateRef") # {}
    /\ Cardinality(OkCallsOf("createBlob")) >= 2
    /\ FailedCallsOf("createBlob") # {}

(***************************************************************************)
(* C3: the entries passed to createTree are exactly the entries of the     *)
(* files with status success: the same paths and blob ids, one per file,   *)
(* in the order of the files; self.tree_entries is that list throughout.   *)
(***************************************************************************)
C3_TreeIsUploadedSubset ==
    /\ tree_entries = UploadedEntries(files)
    /\ \A k \in CallsOf("createTree") :
         /\ calls[k].arg.entries = UploadedEntries(files)
         /\ \A n \in 1..Len(calls[k].arg.entries) :
              \E m \in 1..Len(files) :
                 /\ files[m].status = "success"
                 /\ files[m].path = calls[k].arg.entries[n].path
                 /\ files[m].sha = calls[k].arg.entries[n].sha

C3_Witness ==
    /\ CallsOf("createTree") # {}
    /\ \E m, n \in 1..Len(files) :
         files[m].status = "failed" /\ files[n].status = "success"
    /\ Len(tree_entries) = 2

(***************************************************************************)
(* C4: in the loop of upload_blobs a createBlob that fails (whatever the   *)
(* error, a rate-limit response included) marks only its own entry failed, *)
(* with the error recorded, and the run goes on with the next entry; the   *)
(* loop is left only when every collected entry has been attempted.        *)
(***************************************************************************)
C4_Step ==
    /\ (pc = "upload_blobs" /\ idx <= Len(files)) =>
          /\ pc' = "upload_blobs"
          /\ idx' = idx + 1
          /\ exc' = NoExc
          /\ result' = result
          /\ Len(files') = Len(files)
          /\ \A k \in 1..Len(files) : k # idx => files'[k] = files[k]
          /\ files'[idx].status \in {"success", "failed"}
          /\ files'[idx].status = "failed" =>
                /\ files'[idx].error # NoneStr
                /\ files'[idx].sha = NoSha
                /\ tree_entries' = tree_entries
    /\ (pc = "upload_blobs" /\ pc' # "upload_blobs") =>
          \A k \in 1..Len(files) : files[k].status # "pending"

\* C4: every step of the run keeps a createBlob failure contained (C4_Step).
C4_UploadFailureContained == [][C4_Step]_vars

C4_Witness ==
    /\ pc = "create_commit"
    /\ Len(files) = 3
    /\ files[1].status = "failed"
    /\ files[1].error = "Blob create failed: API rate limit exceeded"
    /\ files[2].status = "success"
    /\ files[3].status = "failed"

(***************************************************************************)
(* C5 as stated: whenever the repository exists when publish is called,    *)
(* the run ends with success = false and the already-exists error, and     *)
(* sends no request that writes.                                           *)
(***************************************************************************)
C5_Original ==
    (pc = "done" /\ repoExists) =>
        /\ ~result.success
        /\ result.error = "Repository already exists"
        /\ NoWrites

(***************************************************************************)
(* C5 as amended: whenever the repository exists when publish is called,   *)
(* the run ends with success = false and an error, and sends no request    *)
(* that writes; the error is the already-exists error whenever the source  *)
(* is a directory and the existence lookup was answered (GET /user and     *)
(* GET /repos/{user}/{repo} both returned without an error).               *)
(***************************************************************************)
C5_ExistingRepoNoWrites ==
    /\ repoExists => NoWrites
    /\ (pc = "done" /\ repoExists) =>
          /\ ~result.success
          /\ result.error # NoneStr
          /\ (srcKind = "dir" /\ OkCallsOf("getRepo") # {}) =>
                result.error = "Repository already exists"

C5_Witness ==
    /\ pc = "done"
    /\ repoExists
    /\ result.error = "Repository already exists"
    /\ OkCallsOf("getRepo") # {}

(***************************************************************************)
(* C6: when updateRef fails after createCommit succeeded, the result has   *)
(* success = false and the error of the failed ref update; success = true  *)
(* is never reported unless updateRef returned without error.              *)
(***************************************************************************)
C6_RefUpdateFailureReported ==
    /\ result.success => OkCallsOf("updateRef") # {}
    /\ \A k \in FailedCallsOf("updateRef") :
         pc = "done" =>
            /\ OkCallsOf("createCommit") # {}
            /\ ~result.success
            /\ result.error # NoneStr
            /\ result.error = Request(calls[k].status).message
            /\ result.commit_sha = NoSha

C6_Witness ==
    /\ pc = "done"
    /\ FailedCallsOf("updateRef") # {}
    /\ Truthy(commit_sha)
    /\ ~result.success

(***************************************************************************)
(* C7: an entry over the size ceiling, once attempted, is failed with the  *)
(* too-large error; and a run with such an entry whose tree, commit and    *)
(* ref requests succeeded (so another file was uploaded) ends with         *)
(* success = true.                                                         *)
(***************************************************************************)
C7_TooLargeFailsRunSucceeds ==
    /\ \A k \in 1..Len(files) :
         (files[k].content.len > MaxBytes /\ k < idx) =>
            /\ files[k].status = "failed"
            /\ files[k].error = "File too large: " \o format_size(files[k].content.len)
            /\ files[k].sha = NoSha
    /\ (pc = "done" /\ OkCallsOf("updateRef") # {}
          /\ \E k \in 1..Len(files) : files[k].content.len > MaxBytes) =>
            /\ result.success
            /\ result.files_uploaded >= 1

C7_Witness ==
    /\ pc = "done"
    /\ result.success
    /\ \E k, m \in 1..Len(files) :
         /\ files[k].content.len > MaxBytes
         /\ files[k].status = "failed"
         /\ files[k].error = "File too large: 50.0 MB"
         /\ files[m].status = "success"

(***************************************************************************)
(* C8: whenever publish catches an exception at its boundary, whatever the *)
(* stage that raised it, the result it returns has success = false and a   *)
(* non-empty error.                                                        *)
(***************************************************************************)
C8_ExceptionGivesFailure ==
    (pc = "done" /\ exc # NoExc) =>
        /\ ~result.success
        /\ result.error # NoneStr

(***************************************************************************)
(* C9: a setTopics that fails does not abort the run: createBlob is still  *)
(* attempted for every collected file.                                     *)
(***************************************************************************)
C9_TopicsFailureTolerated ==
    (pc = "done" /\ FailedCallsOf("setTopics") # {}) =>
        /\ Len(files) > 0
        /\ AllAttempted

(***************************************************************************)
(* C10: a run in which every createBlob attempt failed ends with           *)
(* success = false and an error saying that no files were uploaded.        *)
(***************************************************************************)
C10_NoFilesUploadedError ==
    (pc = "done" /\ Len(files) > 0
       /\ \A k \in 1..Len(files) : files[k].status = "failed") =>
        /\ ~result.success
        /\ result.error # NoneStr

(***************************************************************************)
(* C11: when collection yields no FileEntry, the run ends there with       *)
(* success = false and the nothing-to-publish error ("No files to upload"),*)
(* and while no entry is collected no request that writes is ever sent:    *)
(* the repository is not created.                                          *)
(***************************************************************************)
C11_Step ==
    /\ (pc = "collect_files" /\ exc' = NoExc /\ Len(files') = 0) =>
          /\ pc' = "done"
          /\ ~result'.success
          /\ result'.error = "No files to upload"
    /\ Len(files') = 0 => NoWrites'
    /\ pc = "done" => pc' = "done"

\* C11: every step of the run keeps C11_Step.
C11_NothingToPublish == [][C11_Step]_vars

C11_Witness ==
    /\ pc = "done"
    /\ disk # {}
    /\ Len(files) = 0
    /\ result.error = "No files to upload"
    /\ ~result.success
    /\ CallsOf("getRepo") # {}
    /\ NoWrites

(***************************************************************************)
(* C12.  The position of each stage of publish in the order of the code.   *)
(***************************************************************************)
StageRank(p) ==
    CASE p = "validate_source"      -> 1
      [] p = "check_repo_exists"    -> 2
      [] p = "collect_files"        -> 3
      [] p = "create_repository"    -> 4
      [] p = "set_topics"           -> 5
      [] p = "upload_blobs"         -> 6
      [] p = "create_commit"        -> 7
      [] p = "create_tree"          -> 8
      [] p = "create_commit_object" -> 9
      [] p = "update_ref"           -> 10
      [] p = "print_summary"        -> 11
      [] p = "done"                 -> 12

\* C12 as stated: collection comes before the repository-existence check,
\* so a run over an empty directory against an existing repository ends
\* with the nothing-to-publish error and without having asked for the
\* repository.
C12_Original ==
    (pc = "done" /\ exc = NoExc /\ srcKind = "dir" /\ disk = {} /\ repoExists) =>
        /\ result.error = "No files to upload"
        /\ CallsOf("getRepo") = {}

\* The stages follow one another as in the code: validation, then the
\* repository-existence check, then collection, then creation, topics,
\* uploads, head lookup, tree, commit, ref update.
C12_Step ==
    /\ StageRank(pc') >= StageRank(pc)
    /\ pc' \notin {"done", "print_summary"} => StageRank(pc') <= StageRank(pc) + 1
    \* collection starts only after the lookup answered "not found"
    /\ pc' = "collect_files" =>
          \E k \in CallsOf("getRepo")' : calls'[k].status = 404
    /\ Len(files') > 0 =>
          \E k \in CallsOf("getRepo")' : calls'[k].status = 404
    \* an existing repository ends the run before anything is collected
    /\ (pc = "check_repo_exists" /\ exc' = NoExc /\ repoExists) =>
          /\ pc' = "done"
          /\ result'.error = "Repository already exists"
          /\ Len(files') = 0
    \* creation only with at least one collected file
    /\ CallsOf("createRepository")' # {} => Len(files') > 0

\* C12 (amended): the stages are passed in the order Validating, existence
\* check, Collecting, creation of the repository, Uploading, Assembling,
\* Committing, Updated; the existence check completes before collection, so
\* an empty directory against an existing repository ends AlreadyExists.
C12_StageOrder == [][C12_Step]_vars

C12_Witness ==
    /\ pc = "done"
    /\ exc = NoExc
    /\ srcKind = "dir"
    /\ disk = {}
    /\ repoExists
    /\ result.error = "Repository already exists"
    /\ Len(files) = 0

(***************************************************************************)
(* C13: whenever the default branch of the repository has a head commit at *)
(* the time of committing, createCommit is sent with that commit as its    *)
(* only parent; a failed head lookup never makes the parent be omitted.    *)
(* (Stated for a repository whose default branch is the one looked up.)    *)
(***************************************************************************)
C13_ParentIsHead ==
    \A k \in CallsOf("createCommit") :
        (MainExists /\ Truthy(RemoteHead)) => calls[k].arg.parents = <<RemoteHead>>

(***************************************************************************)
(* C14: when the repository is not empty, the base_tree sent to createTree *)
(* is the id of the tree of the head commit of the default branch: a tree  *)
(* id, not the id of the head commit.                                      *)
(***************************************************************************)
C14_BaseTreeIsHeadTree ==
    \A k \in CallsOf("createTree") :
        Truthy(calls[k].arg.base_tree) =>
            /\ calls[k].arg.base_tree.kind = "tree"
            /\ calls[k].arg.base_tree = RemoteHead.tree

(***************************************************************************)
(* C15: updateRef is sent with force = true against the default branch the *)
(* creation response reported, and the head lookup reads that same branch, *)
(* whatever its name.                                                      *)
(***************************************************************************)
C15_RefIsDefaultBranch ==
    /\ \A k \in CallsOf("updateRef") :
          /\ calls[k].arg.force
          /\ calls[k].arg.ref = "heads/" \o default_branch
    /\ \A k \in CallsOf("getRef") : calls[k].arg = "heads/" \o default_branch

(***************************************************************************)
(* C16: once the Uploading stage is complete, files_failed of the result   *)
(* is the number of FileEntries whose status is FAILED.                    *)
(***************************************************************************)
C16_FilesFailedCounted ==
    StageRank(pc) > StageRank("upload_blobs") =>
        result.files_failed =
            Cardinality({k \in 1..Len(files) : files[k].status = "failed"})

(***************************************************************************)
(* C17: when all n >= 1 collected files are uploaded and the tree, commit  *)
(* and ref requests succeed, the result has files_uploaded = n,            *)
(* files_skipped = 0, files_failed = 0 and success = TRUE; files the       *)
(* collection policy left out are not counted as skipped.                  *)
(***************************************************************************)
C17_AllUploadedCounts ==
    ( /\ Len(files) >= 1
      /\ \A k \in 1..Len(files) : files[k].status = "success"
      /\ OkCallsOf("createTree") # {}
      /\ OkCallsOf("createCommit") # {}
      /\ OkCallsOf("updateRef") # {} ) =>
        /\ result.files_uploaded = Len(files)
        /\ result.files_skipped = 0
        /\ result.files_failed = 0
        /\ result.success

C17_Witness ==
    /\ pc = "done"
    /\ exc = NoExc
    /\ Len(files) = 2
    /\ Cardinality(disk) > Len(files)
    /\ \A k \in 1..Len(files) : files[k].status = "success"
    /\ OkCallsOf("updateRef") # {}
    /\ result.files_uploaded = 2
    /\ result.success

(***************************************************************************)
(* C18: a remote error from createRepository, createTree, createCommit or  *)
(* updateRef ends the run: no write request follows it, success is FALSE   *)
(* and the error of the result is the message of that error.               *)
(***************************************************************************)
AbortingOps == {"createRepository", "createTree", "createCommit", "updateRef"}

C18_RemoteErrorAborts ==
    \A k \in 1..Len(calls) :
        (calls[k].op \in AbortingOps /\ ~IsOk(calls[k].status)) =>
            /\ \A j \in (k + 1)..Len(calls) : calls[j].op \notin WriteOps
            /\ pc = "done"
            /\ ~result.success
            /\ result.error = Request(calls[k].status).message

C18_Witness ==
    /\ pc = "done"
    /\ FailedCallsOf("createTree") # {}
    /\ OkCallsOf("createBlob") # {}
    /\ CallsOf("createCommit") = {}
    /\ CallsOf("updateRef") = {}
    /\ ~result.success
    /\ result.error # NoneStr

(***************************************************************************)
(* C19: create_blob on content larger than the ceiling fails with the      *)
(* too-large error and sends no request, neither the blob POST nor the     *)
(* lookup of the authenticated user; content of exactly the ceiling is not *)
(* rejected by the local check: a request is sent for it.                  *)
(***************************************************************************)
C19_Step ==
    (pc = "upload_blobs" /\ idx <= Len(files) /\ idx' = idx + 1) =>
        LET content == files[idx].content
            too_large == "File too large: " \o format_size(content.len)
        IN /\ content.len > MaxBytes =>
                /\ calls' = calls
                /\ user_cache' = user_cache
                /\ files'[idx].status = "failed"
                /\ files'[idx].error = too_large
           /\ content.len = MaxBytes =>
                /\ Len(calls') > Len(calls)
                /\ files'[idx].error # too_large

\* C19: every call of create_blob keeps C19_Step.
C19_TooLargeIsLocal == [][C19_Step]_vars

C19_Witness ==
    /\ Len(files) >= 2
    /\ idx = 3
    /\ files[1].content.len = MaxBytes + 1
    /\ files[1].status = "failed"
    /\ files[1].error = "File too large: 50.0 MB"
    /\ files[2].content.len = MaxBytes
    /\ files[2].status = "success"
    /\ Len(calls) = 2
    /\ calls[1].op = "getUser"
    /\ calls[2].op = "createBlob"

(***************************************************************************)
(* C20.  The path of an entry as the operating system writes it.           *)
(***************************************************************************)
NativeStr(s) == [k \in 1..Len(s) |-> IF s[k] = Slash THEN os_sep ELSE s[k]]

\* The blob requests of the log.
BlobCalls == SelectSeq(calls, LAMBDA c : c.op = "createBlob")

\* C20 as stated: the entries for which a blob request was sent are in
\* ascending order of their forward-slash paths.
C20_Original ==
    \A i, j \in 1..Len(files) :
        (i < j /\ files[i].status = "success" /\ files[j].status = "success") =>
            StrLess(files[i].path, files[j].path)

C20_Step ==
    \* the entries are in ascending order of their native path strings,
    \* which is the order of the forward-slash paths when the separator is "/"
    /\ \A i, j \in 1..Len(files') :
          i < j => /\ StrLess(NativeStr(files'[i].path), NativeStr(files'[j].path))
                   /\ os_sep = Slash => StrLess(files'[i].path, files'[j].path)
    \* they are the readable files the policy keeps: the order depends on the
    \* directory contents alone
    /\ Len(files') > 0 =>
          {files'[k].path : k \in 1..Len(files')} =
              {PathStr(f.parts, Slash) :
                  f \in {g \in CollectFilter(disk, SKIP_PATTERNS) : g.readable}}
    \* one entry at a time, in the order of the list
    /\ (pc = "upload_blobs" /\ idx' # idx) =>
          /\ idx' = idx + 1
          /\ \A k \in 1..Len(files') :
                (files'[k].status = "pending") = (k > idx)
          /\ Len(BlobCalls') <= Len(BlobCalls) + 1
          /\ Len(BlobCalls') = Len(BlobCalls) + 1 =>
                /\ calls'[Len(calls')].op = "createBlob"
                /\ calls'[Len(calls')].arg = files[idx].content
          /\ files'[idx].status = "success" => Len(BlobCalls') = Len(BlobCalls) + 1

\* C20 (amended): blob requests are sent one entry at a time in the order of
\* the collected list, which is ascending in the native path strings (the
\* forward-slash order when the separator is "/") and is fixed by the
\* directory contents.
C20_UploadOrder == [][C20_Step]_vars

C20_Witness ==
    /\ os_sep = Backslash
    /\ Len(files) = 2
    /\ files[1].status = "success"
    /\ files[2].status = "success"
    /\ StrLess(files[2].path, files[1].path)
    /\ StrLess(NativeStr(files[1].path), NativeStr(files[2].path))
    /\ Len(BlobCalls) = 2

(***************************************************************************)
(* C21: each regular file is decided by this priority: a file whose name   *)
(* is in the mandatory-include set is collected, whatever directory it is  *)
(* in and whatever glob it matches; otherwise it is skipped exactly when   *)
(* one of its directory segments equals an exclusion pattern or its name   *)
(* matches an exclusion glob; otherwise it is collected.  Every entry is a *)
(* file of the directory: no directory is an entry.                        *)
(***************************************************************************)
\* Collection has run to its end.
Collected == Len(files) > 0 \/ result.error = "No files to upload"

\* The decision as the claim words it.
PolicyKeeps(parts) ==
    LET name == parts[Len(parts)]
        mandatory == name \in ALWAYS_INCLUDE
        in_excluded_dir == \E k \in 1..(Len(parts) - 1) : parts[k] \in SKIP_PATTERNS
        matches_glob == \E pat \in SKIP_PATTERNS : fnmatch(name, pat)
    IN mandatory \/ ~(in_excluded_dir \/ matches_glob)

C21_CollectionPolicy ==
    Collected =>
        LET paths == {files[k].path : k \in 1..Len(files)}
        IN /\ \A f \in disk :
                f.readable => ((PathStr(f.parts, Slash) \in paths) = PolicyKeeps(f.parts))
           /\ \A q \in paths : \E f \in disk : PathStr(f.parts, Slash) = q

C21_Witness ==
    /\ Collected
    /\ Len(files) = 1
    /\ files[1].path = PathStr(<<p_node_modules, p_README_md>>, Slash)
    /\ \E f \in disk : f.readable /\ f.parts = <<p_node_modules, p_ignored_txt>>
    /\ \E f \in disk : f.readable /\ f.parts = <<p_debug_log>>

(***************************************************************************)
(* C22: the process exits with a non-zero status whenever publish returned *)
(* success = FALSE, and with status 0 only when it returned success = TRUE.*)
(***************************************************************************)
C22_ExitStatus ==
    exit_code # Running =>
        /\ ~result.success => exit_code # 0
        /\ exit_code = 0 => result.success

C22_Witness ==
    /\ exit_code = 1
    /\ ~result.success
    /\ result.error # NoneStr
    /\ CallsOf("createRepository") # {}

(***************************************************************************)
(* C23: every request whose response status is not 2xx fails with          *)
(* GitHubAPIError carrying the message of the response and its status; a   *)
(* transport failure fails with GitHubAPIError without a status code; only *)
(* a 2xx response returns a value.                                         *)
(***************************************************************************)
C23_NonSuccessFails ==
    \A k \in CallsOf("request") :
        LET c == calls[k]
            is2xx == c.status >= 200 /\ c.status < 300
        IN /\ (c.status # NoResponse /\ ~is2xx) =>
                /\ c.res.raised # NoExc
                /\ c.res.raised.type = "GitHubAPIError"
                /\ c.res.raised.status_code = c.status
                /\ c.arg = "message" => c.res.raised.message = ResponseMessage(c.status)
           /\ c.status = NoResponse =>
                /\ c.res.raised # NoExc
                /\ c.res.raised.type = "GitHubAPIError"
                /\ c.res.raised.status_code = 0
           /\ c.res.raised = NoExc => is2xx

(***************************************************************************)
(* C24: nothing is retried within a run: create_blob is attempted exactly  *)
(* once for each collected entry, whether it succeeds or fails, and        *)
(* createRepository, setTopics, the head lookup, createTree, createCommit  *)
(* and updateRef are each sent at most once.                               *)
(***************************************************************************)
OnceOps ==
    {"createRepository", "setTopics", "getRef", "createTree", "createCommit",
     "updateRef"}

C24_NoRetry ==
    /\ \A op \in OnceOps : Cardinality(CallsOf(op)) <= 1
    \* one attempt for each entry before idx, none for the others
    /\ idx <= Len(files) + 1
    /\ uploaded + failed = idx - 1
    /\ \A k \in 1..Len(files) : (files[k].status # "pending") = (k < idx)
    \* one blob request for each attempt that passed the size check
    /\ Cardinality(CallsOf("createBlob")) =
          Cardinality({k \in 1..Len(files) : k < idx /\ files[k].content.len <= MaxBytes})
    \* the stages after the uploads start with every entry attempted
    /\ (StageRank(pc) > StageRank("upload_blobs") /\ pc # "done") => idx = Len(files) + 1
    /\ result.success => idx = Len(files) + 1

C24_Witness ==
    /\ pc = "done"
    /\ Len(files) = 2
    /\ files[1].status = "failed"
    /\ files[2].status = "success"
    /\ Cardinality(FailedCallsOf("createBlob")) = 1
    /\ Cardinality(CallsOf("createBlob")) = 2
    /\ Cardinality(CallsOf("updateRef")) = 1

(***************************************************************************)
(* C25: the status of a FileEntry only moves from PENDING to SUCCESS or    *)
(* from PENDING to FAILED, once and only in the upload stage; after that   *)
(* its status, id and error never change; an entry has an id exactly when  *)
(* its status is SUCCESS.                                                  *)
(***************************************************************************)
C25_Step ==
    /\ Len(files) > 0 => Len(files') = Len(files)
    /\ \A k \in 1..Len(files') :
          /\ k > Len(files) => files'[k].status = "pending"
          /\ Truthy(files'[k].sha) = (files'[k].status = "success")
          /\ files'[k].status = "failed" => files'[k].error # NoneStr
    /\ \A k \in 1..Len(files) :
          /\ files[k].status # "pending" => files'[k] = files[k]
          /\ files'[k] # files[k] =>
                /\ pc = "upload_blobs"
                /\ k = idx
                /\ files[k].status = "pending"
                /\ files'[k].status \in {"success", "failed"}
                /\ files'[k].path = files[k].path
                /\ files'[k].content = files[k].content

\* C25: every step of the run keeps C25_Step.
C25_EntryLifecycle == [][C25_Step]_vars

C25_Witness ==
    /\ pc = "done"
    /\ Len(files) = 2
    /\ files[1].status = "success"
    /\ Truthy(files[1].sha)
    /\ files[2].status = "failed"
    /\ ~Truthy(files[2].sha)
    /\ files[2].error # NoneStr
    /\ result.success

(***************************************************************************)
(* C26: if every remote call returns, every run over a finite list of      *)
(* files ends: publish returns, with success TRUE or FALSE, and the one    *)
(* PublishResult it returned does not change afterwards.                   *)
(***************************************************************************)
C26_Terminates ==
    /\ <>[](pc = "done" /\ exit_code # Running)
    /\ [][pc = "done" => (pc' = "done" /\ result' = result)]_vars

C26_Witness ==
    /\ pc = "done"
    /\ exit_code = 0
    /\ result.success
    /\ Len(files) = MaxFiles
    /\ idx = MaxFiles + 1

(***************************************************************************)
(* C27: in every PublishResult that publish returns, success = TRUE        *)
(* implies that commit_sha is the id createCommit returned, that updateRef *)
(* returned without error for that commit, that repo_url is not empty,     *)
(* that files_uploaded >= 1 and that error is absent; success = FALSE      *)
(* implies that commit_sha is empty.                                       *)
(***************************************************************************)
C27_SuccessInvariant ==
    pc = "done" =>
        /\ result.success =>
              /\ Truthy(result.commit_sha)
              /\ \E k \in OkCallsOf("createCommit") : calls[k].res = result.commit_sha
              /\ \E k \in OkCallsOf("updateRef") : calls[k].arg.sha = result.commit_sha
              /\ result.repo_url # ""
              /\ result.files_uploaded >= 1
              /\ result.error = NoneStr
        /\ ~result.success => ~Truthy(result.commit_sha)

(***************************************************************************)
(* C28: if the source root does not exist or is not a directory, publish   *)
(* returns success = FALSE with the invalid-source error, sends no request *)
(* at all (no user lookup, no existence check, no creation) and collects   *)
(* no files.                                                               *)
(***************************************************************************)
C28_InvalidSourceNoEffect ==
    (srcKind \in {"missing", "file"} /\ pc # "validate_source") =>
        /\ pc = "done"
        /\ ~result.success
        /\ result.error = "Invalid source path"
        /\ calls = <<>>
        /\ user_cache = NoneStr
        /\ files = <<>>
        /\ tree_entries = <<>>

C28_Witness ==
    /\ srcKind = "file"
    /\ pc = "done"
    /\ exit_code = 1
    /\ result.error = "Invalid source path"
    /\ calls = <<>>

(***************************************************************************)
(* C29: if no FileEntry was uploaded, the run sends no head lookup, no     *)
(* createTree, no createCommit and no updateRef: the branch of the new     *)
(* repository still points at its initial commit when the run ends.        *)
(***************************************************************************)
CommitOps == {"getRef", "createTree", "createCommit", "updateRef"}

C29_NothingUploadedNoCommit ==
    (\A k \in 1..Len(files) : files[k].status # "success") =>
        /\ \A k \in 1..Len(calls) : calls[k].op \notin CommitOps
        /\ ~result.success
        /\ ~Truthy(result.commit_sha)

C29_Witness ==
    /\ pc = "done"
    /\ Len(files) = 2
    /\ \A k \in 1..Len(files) : files[k].status = "failed"
    /\ OkCallsOf("createRepository") # {}
    /\ FailedCallsOf("createBlob") # {}
    /\ \A k \in 1..Len(calls) : calls[k].op \notin CommitOps
    /\ result.files_uploaded = 0

(***************************************************************************)
(* C30: in the PublishResult of a run that completed the upload stage,     *)
(* files_uploaded is the number of TreeEntries and the number of           *)
(* FileEntries with status SUCCESS, and files_uploaded + files_skipped is  *)
(* the number of collected FileEntries; in a run that ended before the     *)
(* upload stage the three counters are 0.                                  *)
(***************************************************************************)
\* upload_blobs has returned and publish has stored its counts.
UploadingDone == Len(files) > 0 /\ idx = Len(files) + 1 /\ pc # "upload_blobs"

C30_CountsConsistent ==
    /\ UploadingDone =>
          /\ result.files_uploaded = Len(tree_entries)
          /\ result.files_uploaded =
                Cardinality({k \in 1..Len(files) : files[k].status = "success"})
          /\ result.files_uploaded + result.files_skipped = Len(files)
    /\ ~UploadingDone =>
          /\ result.files_uploaded = 0
          /\ result.files_skipped = 0
          /\ result.files_failed = 0

C30_Witness ==
    /\ pc = "done"
    /\ UploadingDone
    /\ Len(files) = 3
    /\ Len(tree_entries) = 2
    /\ result.files_uploaded = 2
    /\ result.files_skipped = 1
    /\ result.success

====
